---- MODULE Spec2Model ----
\* Model of gf2e_prng_tool: GF(2) polynomial arithmetic (gf2_poly_utils.py), the
\* combinational circuits emitted by the generators (xor tree, affine transform,
\* modular reducer, affine-modular composer) and the clocked PRNG wrapper.
\* Polynomials are non-negative integers, bit i = coefficient of x^i.
\* A circuit is modelled by the value its emitted wiring computes, with
\* Verilog's sizing rules (a W-bit slice or literal keeps the low W bits).
EXTENDS Integers, Sequences, FiniteSets, TLC

VARIABLES
    pc,             \* position of the run that the specification models
    a, c, h,        \* the constant polynomials a(x), c(x), h(x)
    bit_length,     \* bit_length / y_bit_length argument of a generator
    p, out, positions, y, rem,   \* locals of poly_affine and poly_mod
    iters,          \* passes made through the loop of poly_mod
    in_poly, w_in_vectors, w_out_affine, out_poly,  \* nets of the affine / mod / composer modules
    num_vectors, code_input, in_vectors, current_level, stage, out_xor, \* xor tree and its harness
    assigns,        \* assign statements the xor tree generator has appended to lines, in order
    clk, rst, enable, seed, state, i, x0, loaded,   \* PRNG module, its inputs, and the harness count
    entry,          \* the program that was started (a generator's main, the tool's main, the GUI handler)
    todo,           \* file-system steps the run has still to make, in call order
    written,        \* files written so far, in order
    reported,       \* messages shown to the user so far
    rng,            \* state of the process-wide generator of Python's random module
    kept,           \* the example one earlier harness generation produced
    example,        \* the example of the latest generation with the request of kept
    poly_int, poly_format, poly_str,   \* arguments and result of int_poly_to_str / argument of str_poly_to_int
    value,          \* what str_poly_to_int returned
    now,            \* simulation time of the PRNG testbench
    clk_at, wake,   \* when "always #5" and the initial block's pending delay resume
    dut_trig, tb_trig,   \* processes woken by posedge clk that have not run yet
    nba,            \* pending non-blocking assignment to state
    rst_edges, en_visible,   \* rising edges seen with rst = 1; enabled updates of state made visible
    verdict         \* what the testbench displayed

paramVars == <<a, c, h, bit_length>>
polyVars == <<p, out, positions, y, rem, iters>>
netVars == <<in_poly, w_in_vectors, w_out_affine, out_poly>>
xorVars == <<num_vectors, code_input, in_vectors, current_level, stage, out_xor, assigns>>
prngVars == <<clk, rst, enable, seed, state, i, x0, loaded>>
genVars == <<entry, todo, written, reported>>
harnessVars == <<rng, kept, example>>
strVars == <<poly_int, poly_format, poly_str, value>>
tbVars == <<now, clk_at, wake, dut_trig, tb_trig, nba, rst_edges, en_visible, verdict>>
vars == <<pc, paramVars, polyVars, netVars, xorVars, prngVars, genVars, harnessVars,
          strVars, tbVars>>

\* ---------------------------------------------------------------- bounds
MaxA == 7
MaxC == 5
MaxH == 7
MaxP == 7
MaxBitLength == 2
MaxYBitLength == 4
MaxVectors == 4
MaxSteps == 3
MaxIters == 8

\* ------------------------------------------------- integer bit operations
\* Python's x << n for n >= 0.
ShiftLeft(x, n) == x * (2 ^ n)

\* Python's x ^ y on non-negative integers, bit by bit.
RECURSIVE Xor(_, _)
Xor(x, z) ==
    IF x = 0 THEN z
    ELSE IF z = 0 THEN x
    ELSE (((x % 2) + (z % 2)) % 2) + 2 * Xor(x \div 2, z \div 2)

\* int.bit_length(): number of bits needed to write n.
RECURSIVE BitLength(_)
BitLength(n) == IF n = 0 THEN 0 ELSE 1 + BitLength(n \div 2)

\* s[::-1]
Reverse(s) == [k \in 1..Len(s) |-> s[Len(s) + 1 - k]]

\* Verilog: a value driven onto, or read from, a w-bit net keeps its low w bits.
Trunc(x, w) == x % (2 ^ w)

\* Python's max(m, n)
Max(m, n) == IF m >= n THEN m ELSE n

\* ------------------------------------------------------- gf2_poly_utils
\* get_bit_positions: the while loop, position counting up from 0.
RECURSIVE GetBitPositionsLoop(_, _, _)
GetBitPositionsLoop(n, position, acc) ==
    IF n = 0 THEN acc
    ELSE GetBitPositionsLoop(n \div 2, position + 1,
                             IF n % 2 = 1 THEN Append(acc, position) ELSE acc)

get_bit_positions(n) == GetBitPositionsLoop(n, 0, <<>>)

poly_degree(q) == IF q = 0 THEN -1 ELSE BitLength(q) - 1

\* poly_mod, line 81: rem = y
PolyModStartFromModulus(yy, hh) == hh
PolyModStart(yy, hh) == yy

\* poly_mod, line 82: the loop condition
PolyModGuardStrict(r, deg_h) == poly_degree(r) > deg_h
PolyModGuard(r, deg_h) == poly_degree(r) >= deg_h

\* poly_mod, lines 83-84: shift = deg(rem) - deg_h; rem ^= h << shift
PolyModBodyNoShift(r, hh, deg_h) == Xor(r, hh)
PolyModBody(r, hh, deg_h) == Xor(r, ShiftLeft(hh, poly_degree(r) - deg_h))

RECURSIVE PolyModLoop(_, _, _)
PolyModLoop(r, hh, deg_h) ==
    IF PolyModGuard(r, deg_h) THEN PolyModLoop(PolyModBody(r, hh, deg_h), hh, deg_h)
    ELSE r

\* poly_mod(y, h) for h > 0 (with h = 0 the loop never ends).
poly_mod(yy, hh) == PolyModLoop(PolyModStart(yy, hh), hh, poly_degree(hh))

\* poly_affine, line 105: out ^= p << i
PolyAffineStepAdds(o, pp, k) == o + ShiftLeft(pp, k)
PolyAffineStep(o, pp, k) == Xor(o, ShiftLeft(pp, k))

\* poly_affine, line 106: return out ^ c
PolyAffineReturnDropsC(o, cc) == o
PolyAffineReturn(o, cc) == Xor(o, cc)

RECURSIVE PolyAffineLoop(_, _, _)
PolyAffineLoop(pos, pp, o) ==
    IF pos = <<>> THEN o
    ELSE PolyAffineLoop(Tail(pos), pp, PolyAffineStep(o, pp, Head(pos)))

poly_affine(aa, pp, cc) ==
    PolyAffineReturn(PolyAffineLoop(get_bit_positions(aa), pp, 0), cc)

poly_affine_mod(aa, pp, cc, hh) == poly_mod(poly_affine(aa, pp, cc), hh)

\* ------------------------------------------------------ idle valuations
IdleParams == a = 0 /\ c = 0 /\ h = 0 /\ bit_length = 0
IdlePoly ==
    p = 0 /\ out = 0 /\ positions = <<>> /\ y = 0 /\ rem = 0 /\ iters = 0
IdleNets == in_poly = 0 /\ w_in_vectors = 0 /\ w_out_affine = 0 /\ out_poly = 0
IdleXor ==
    /\ num_vectors = 0 /\ code_input = <<>> /\ in_vectors = 0
    /\ current_level = <<>> /\ stage = 0 /\ out_xor = 0 /\ assigns = <<>>
IdlePrng ==
    /\ clk = 0 /\ rst = 0 /\ enable = 0 /\ seed = 0
    /\ state = 0 /\ i = 0 /\ x0 = 0 /\ loaded = FALSE
IdleGen == entry = "" /\ todo = <<>> /\ written = <<>> /\ reported = <<>>

\* No example yet. An example is the request (generator, arguments), the
\* stimulus code_input, the golden value expected_code_output, and whether
\* other generations ran since it was kept.
NoExample ==
    [gen |-> "", args |-> <<>>, code_input |-> <<>>, expected_code_output |-> 0,
     between |-> FALSE]
IdleHarness ==
    rng = [seed |-> 0, drawn |-> 0] /\ kept = NoExample /\ example = NoExample
IdleStr == poly_int = 0 /\ poly_format = "" /\ poly_str = <<>> /\ value = 0
IdleTb ==
    /\ now = 0 /\ clk_at = 0 /\ wake = 0 /\ dut_trig = FALSE /\ tb_trig = FALSE
    /\ nba = <<>> /\ rst_edges = 0 /\ en_visible = 0 /\ verdict = ""

\* ============================================================ SpecPoly
\* One call poly_affine_mod(a, p, c, h), statement by statement:
\* the loop of poly_affine, its return, the loop of poly_mod, its return.
InitPoly ==
    /\ a \in 0..MaxA /\ c \in 0..MaxC /\ h \in 1..MaxH /\ p \in 0..MaxP
    /\ bit_length = 0
    /\ out = 0 /\ positions = get_bit_positions(a) /\ y = 0 /\ rem = 0
    /\ iters = 0
    /\ pc = "affine_loop"
    /\ IdleNets /\ IdleXor /\ IdlePrng /\ IdleGen /\ IdleHarness /\ IdleStr /\ IdleTb

PolyAffineIter ==
    /\ pc = "affine_loop" /\ positions # <<>>
    /\ out' = PolyAffineStep(out, p, Head(positions))
    /\ positions' = Tail(positions)
    /\ UNCHANGED <<strVars, tbVars, genVars, harnessVars, pc, paramVars, p, y, rem, iters, netVars, xorVars, prngVars>>

PolyAffineDone ==
    /\ pc = "affine_loop" /\ positions = <<>>
    /\ y' = PolyAffineReturn(out, c)
    /\ rem' = PolyModStart(PolyAffineReturn(out, c), h)
    /\ pc' = "mod_loop"
    /\ UNCHANGED <<strVars, tbVars, genVars, harnessVars, paramVars, p, out, positions, iters, netVars, xorVars, prngVars>>

\* One pass of the while loop; the passes are followed up to MaxIters.
PolyModIter ==
    /\ pc = "mod_loop" /\ PolyModGuard(rem, poly_degree(h))
    /\ iters < MaxIters
    /\ rem' = PolyModBody(rem, h, poly_degree(h))
    /\ iters' = iters + 1
    /\ UNCHANGED <<strVars, tbVars, genVars, harnessVars, pc, paramVars, p, out, positions, y, netVars, xorVars, prngVars>>

PolyModDone ==
    /\ pc = "mod_loop" /\ ~PolyModGuard(rem, poly_degree(h))
    /\ pc' = "done"
    /\ UNCHANGED <<strVars, tbVars, genVars, harnessVars, paramVars, polyVars, netVars, xorVars, prngVars>>

NextPoly == PolyAffineIter \/ PolyAffineDone \/ PolyModIter \/ PolyModDone

SpecPoly == InitPoly /\ [][NextPoly]_vars

\* C8: for y >= 0 and h > 0 the value poly_mod returns is a non-negative
\* integer of degree strictly below the degree of h.
C8_ModDegreeBelowModulus ==
    pc = "done" => (rem >= 0 /\ poly_degree(rem) < poly_degree(h))

C8_Witness ==
    /\ pc = "done" /\ poly_degree(h) >= 2
    /\ poly_degree(y) >= poly_degree(h) + 2
    /\ poly_degree(rem) = poly_degree(h) - 1

\* C9: reducing an already reduced value changes nothing, and a value of
\* degree below the degree of h is returned as it is.
C9_ModIdempotent ==
    pc = "done" =>
        /\ poly_mod(rem, h) = rem
        /\ poly_mod(poly_mod(y, h), h) = poly_mod(y, h)
        /\ (poly_degree(y) < poly_degree(h) => rem = y)

C9_Witness ==
    /\ pc = "done" /\ poly_degree(y) >= poly_degree(h)
    /\ rem # y /\ rem # 0 /\ poly_mod(rem, h) = rem

\* Bit k of q, and the carry-less product written out coefficient by
\* coefficient: bit k is the parity of the pairs (i, k - i) set in a and p.
Bit(q, k) == (q \div (2 ^ k)) % 2

RECURSIVE XorOfShifts(_, _, _)
XorOfShifts(aa, pp, k) ==
    IF k < 0 THEN 0
    ELSE (2 ^ k) * (Cardinality({j \in 0..k : Bit(aa, j) = 1 /\ Bit(pp, k - j) = 1}) % 2)
         + XorOfShifts(aa, pp, k - 1)

\* C10: poly_affine(a,p,c) = poly_affine(a,p,0) XOR c, poly_affine(a,p,0)
\* XOR itself is 0, and poly_affine(a,p,0) is the XOR of p shifted left by
\* each set-bit position of a.
C10_AffineConstantSplits ==
    pc \in {"mod_loop", "done"} =>
        /\ y = Xor(poly_affine(a, p, 0), c)
        /\ poly_affine(a, p, c) = Xor(poly_affine(a, p, 0), c)
        /\ Xor(poly_affine(a, p, 0), poly_affine(a, p, 0)) = 0
        /\ poly_affine(a, p, 0) = XorOfShifts(a, p, BitLength(a) + BitLength(p))

C10_Witness ==
    /\ pc = "done" /\ Len(get_bit_positions(a)) >= 2 /\ p > 1 /\ c > 0
    /\ y # poly_affine(a, p, 0)

\* =========================================================== xor tree
\* Verilog part-select x[hi:lo] of a net wide enough to hold both ends.
PartSelect(x, hi, lo) == (x \div (2 ^ lo)) % (2 ^ (hi - lo + 1))

\* int_list_to_verilog_vector: the harness drives in_vectors with the
\* concatenation {W'd v0, W'd v1, ...}; the first element is the most significant.
RECURSIVE ConcatVector(_, _)
ConcatVector(int_list, W) ==
    IF int_list = <<>> THEN 0
    ELSE Trunc(Head(int_list), W) * (2 ^ ((Len(int_list) - 1) * W))
         + ConcatVector(Tail(int_list), W)

\* xor_integers: result ^= v for v in int_list
RECURSIVE XorIntegersLoop(_, _)
XorIntegersLoop(int_list, result) ==
    IF int_list = <<>> THEN result
    ELSE XorIntegersLoop(Tail(int_list), Xor(result, Head(int_list)))

xor_integers(int_list) == XorIntegersLoop(int_list, 0)

\* generate_src, "Unpack input": vec_0_i = in_vectors[(i+1)*W-1 : i*W], i = 0..N-1
\* (element k of the sequence is vec_0_(k-1)).
XorUnpackInput(N, W, bus) == [k \in 1..N |-> PartSelect(bus, k * W - 1, (k - 1) * W)]

\* generate_src, one pass of the inner while loop: wires of one stage from the
\* wires of the stage before; an odd last wire is propagated.
TreeStageDropsOdd(level) ==
    [k \in 1..(Len(level) \div 2) |-> Xor(level[2 * k - 1], level[2 * k])]
TreeStage(level) ==
    [k \in 1..((Len(level) + 1) \div 2) |->
        IF 2 * k <= Len(level) THEN Xor(level[2 * k - 1], level[2 * k])
        ELSE level[2 * k - 1]]

RECURSIVE XorTreeLoop(_)
XorTreeLoop(level) == IF Len(level) > 1 THEN XorTreeLoop(TreeStage(level)) ELSE level

\* out_xor of module xor_tree_N_W for the value bus on in_vectors.
xor_tree(N, W, bus) == XorTreeLoop(XorUnpackInput(N, W, bus))[1]

\* The assign statements of generate_src as records: the net driven (a wire
\* vec_<stage>_<idx>, or out_xor, for which stage and idx are 0) and the wires
\* <<stage, idx>> its right-hand side reads. Unpacking reads only in_vectors.
Assign(net, s, idx, reads) == [net |-> net, stage |-> s, idx |-> idx, reads |-> reads]

\* "Unpack input": vec_0_i = in_vectors[...] for i in range(num_vectors)
UnpackAssigns(N) == [k \in 1..N |-> Assign("vec", 0, k - 1, <<>>)]

\* One pass of the outer while loop at stage s over a level of n wires, all
\* named (s-1, 0..n-1): wire new_idx reads the pair (i, i+1), or the odd last i.
TreeStageAssignsDropsOddRead(s, n) ==
    [k \in 1..((n + 1) \div 2) |->
        IF 2 * k <= n THEN Assign("vec", s, k - 1, <<(<<s - 1, 2 * k - 2>>), (<<s - 1, 2 * k - 1>>)>>)
        ELSE Assign("vec", s, k - 1, <<>>)]
TreeStageAssigns(s, n) ==
    [k \in 1..((n + 1) \div 2) |->
        IF 2 * k <= n THEN Assign("vec", s, k - 1, <<(<<s - 1, 2 * k - 2>>), (<<s - 1, 2 * k - 1>>)>>)
        ELSE Assign("vec", s, k - 1, <<(<<s - 1, 2 * k - 2>>)>>)]

\* "Final output": out_xor = vec_<final_stage>_<final_idx>, current_level[0]
OutputAssignReadsInput(final_stage, final_idx) == Assign("out_xor", 0, 0, <<(<<0, final_idx>>)>>)
OutputAssign(final_stage, final_idx) == Assign("out_xor", 0, 0, <<(<<final_stage, final_idx>>)>>)

\* One evaluation of an emitted xor_tree_N_W under its harness.
InitXor ==
    /\ \E N \in 1..MaxVectors, W \in 1..MaxBitLength :
          /\ num_vectors = N /\ bit_length = W
          /\ code_input \in [1..N -> 0..((2 ^ W) - 1)]
          /\ in_vectors = ConcatVector(code_input, W)
    /\ current_level = <<>> /\ stage = 0 /\ out_xor = 0 /\ assigns = <<>>
    /\ pc = "unpack"
    /\ a = 0 /\ c = 0 /\ h = 0
    /\ IdlePoly /\ IdleNets /\ IdlePrng /\ IdleGen /\ IdleHarness /\ IdleStr /\ IdleTb

XorUnpack ==
    /\ pc = "unpack"
    /\ current_level' = XorUnpackInput(num_vectors, bit_length, in_vectors)
    /\ assigns' = UnpackAssigns(num_vectors)
    /\ stage' = 1
    /\ pc' = "tree"
    /\ UNCHANGED <<strVars, tbVars, genVars, harnessVars, paramVars, polyVars, netVars, prngVars,
                   num_vectors, code_input, in_vectors, out_xor>>

XorTreeStage ==
    /\ pc = "tree" /\ Len(current_level) > 1
    /\ current_level' = TreeStage(current_level)
    /\ assigns' = assigns \o TreeStageAssigns(stage, Len(current_level))
    /\ stage' = stage + 1
    /\ UNCHANGED <<strVars, tbVars, genVars, harnessVars, pc, paramVars, polyVars, netVars, prngVars,
                   num_vectors, code_input, in_vectors, out_xor>>

XorAssignOutput ==
    /\ pc = "tree" /\ Len(current_level) = 1
    /\ out_xor' = current_level[1]
    /\ assigns' = Append(assigns, OutputAssign(stage - 1, 0))
    /\ pc' = "done"
    /\ UNCHANGED <<strVars, tbVars, genVars, harnessVars, paramVars, polyVars, netVars, prngVars,
                   num_vectors, code_input, in_vectors, current_level, stage>>

NextXor == XorUnpack \/ XorTreeStage \/ XorAssignOutput

SpecXor == InitXor /\ [][NextXor]_vars

\* XOR of the W-bit fields k = 0..N-1 of bus, read arithmetically.
RECURSIVE XorOfFields(_, _, _)
XorOfFields(bus, W, N) ==
    IF N = 0 THEN 0
    ELSE Xor((bus \div (2 ^ ((N - 1) * W))) % (2 ^ W), XorOfFields(bus, W, N - 1))

\* C1: out_xor of the emitted tree is the bitwise XOR of the N W-bit vectors
\* held in in_vectors (vector i = bits [i*W, (i+1)*W-1]), which is the value
\* xor_integers computes for the harness; with N = 1 it is the single vector.
C1_XorTreeComputesXor ==
    pc = "done" =>
        /\ out_xor = xor_integers(code_input)
        /\ out_xor = XorOfFields(in_vectors, bit_length, num_vectors)
        /\ (num_vectors = 1 => out_xor = code_input[1] /\ out_xor = in_vectors)

C1_Witness ==
    /\ pc = "done" /\ num_vectors = 3 /\ bit_length = 2 /\ stage = 3
    /\ code_input[1] # code_input[2] /\ code_input[3] # 0
    /\ out_xor = xor_integers(code_input) /\ out_xor # 0

\* ================================================== shared bus wiring
\* The assigns "w_in_vectors[(i+1)*W-1 : i*W] = <vector i>", i = 0..N-1: the
\* value of the bus whose W-bit slice k-1 is driven with vecs[k].
RECURSIVE DriveSlices(_, _)
DriveSlices(vecs, W) ==
    IF vecs = <<>> THEN 0
    ELSE Trunc(Head(vecs), W) + (2 ^ W) * DriveSlices(Tail(vecs), W)

\* ====================================================== AffineTransform
\* gf2_poly_affine_generator.generate_src, line 63: a_ones, descending.
AffineOnes(aa) == Reverse(get_bit_positions(aa))

\* line 67: out_bit_length = a_ones[0] + bit_length  (a > 0)
AffineOutBitLength(aa, b) == AffineOnes(aa)[1] + b

\* line 103: xor_tree_num_vectors
AffineNumVectorsCountsZeroC(aa, cc) == Len(AffineOnes(aa)) + 1
AffineNumVectors(aa, cc) ==
    IF cc # 0 THEN Len(AffineOnes(aa)) + 1 ELSE Len(AffineOnes(aa))

\* lines 120-126: the vectors assigned to the slices of w_in_vectors, slice 0
\* first. "in_poly << ti" is evaluated in the width of the slice; the literal
\* W'd c holds c in W bits.
AffineInVectors(aa, cc, b, pp) ==
    LET W == AffineOutBitLength(aa, b)
        shifted == [k \in 1..Len(AffineOnes(aa)) |->
                        Trunc(ShiftLeft(pp, AffineOnes(aa)[k]), W)]
    IN IF cc # 0 THEN Append(shifted, Trunc(cc, W)) ELSE shifted

\* out_poly of module gf2_poly_affine_<b> for the value pp on in_poly.
affine_module(aa, cc, b, pp) ==
    xor_tree(AffineNumVectors(aa, cc), AffineOutBitLength(aa, b),
             DriveSlices(AffineInVectors(aa, cc, b, pp), AffineOutBitLength(aa, b)))

\* One evaluation of an emitted gf2_poly_affine_<bit_length> on a b-bit input.
InitAffine ==
    /\ a \in 1..MaxA /\ c \in 0..MaxC /\ h = 0
    /\ \E b \in 1..MaxBitLength :
          bit_length = b /\ in_poly \in 0..((2 ^ b) - 1)
    /\ w_in_vectors = 0 /\ w_out_affine = 0 /\ out_poly = 0
    /\ pc = "assign_inputs"
    /\ IdlePoly /\ IdleXor /\ IdlePrng /\ IdleGen /\ IdleHarness /\ IdleStr /\ IdleTb

AffineAssignInputs ==
    /\ pc = "assign_inputs"
    /\ w_in_vectors' = DriveSlices(AffineInVectors(a, c, bit_length, in_poly),
                                   AffineOutBitLength(a, bit_length))
    /\ pc' = "xor_tree"
    /\ UNCHANGED <<strVars, tbVars, genVars, harnessVars, paramVars, polyVars, xorVars, prngVars, in_poly, w_out_affine, out_poly>>

AffineAssignOutput ==
    /\ pc = "xor_tree"
    /\ out_poly' = xor_tree(AffineNumVectors(a, c), AffineOutBitLength(a, bit_length),
                            w_in_vectors)
    /\ pc' = "done"
    /\ UNCHANGED <<strVars, tbVars, genVars, harnessVars, paramVars, polyVars, xorVars, prngVars, in_poly, w_in_vectors, w_out_affine>>

NextAffine == AffineAssignInputs \/ AffineAssignOutput

SpecAffine == InitAffine /\ [][NextAffine]_vars

\* C2: for every a > 0, c >= 0, b >= 1 and b-bit p, the output of the emitted
\* AffineTransform module equals the harness golden value poly_affine(a, p, c).
C2_AffineModuleEqualsPolyAffine ==
    pc = "done" => out_poly = poly_affine(a, in_poly, c)

\* ======================================================= ModularReducer
\* gf2_poly_mod_generator.get_reduction_constants, lines 63-67
ModNumConstsOffByOne(hh, y_bit_length) ==
    IF (y_bit_length - 1) - poly_degree(hh) > 0
    THEN (y_bit_length - 1) - poly_degree(hh) ELSE 0
ModNumConsts(hh, y_bit_length) ==
    IF (y_bit_length - 1) - poly_degree(hh) + 1 > 0
    THEN (y_bit_length - 1) - poly_degree(hh) + 1 ELSE 0

\* lines 70-76: consts[i] = poly_mod(1 << (deg_h + i), h), i = 0..num_consts-1
GetReductionConstantsFromNextBit(hh, y_bit_length) ==
    [k \in 1..ModNumConsts(hh, y_bit_length) |->
        poly_mod(ShiftLeft(1, poly_degree(hh) + k), hh)]
get_reduction_constants(hh, y_bit_length) ==
    [k \in 1..ModNumConsts(hh, y_bit_length) |->
        poly_mod(ShiftLeft(1, poly_degree(hh) + (k - 1)), hh)]

\* generate_src, line 86: out_bit_length = h.bit_length() - 1
ModOutBitLength(hh) == BitLength(hh) - 1

\* generate_submodules_verilog_and_tb_to_files: the xor tree asked for
ModSubmoduleNumVectors(hh, y_bit_length) ==
    Max(y_bit_length - ModOutBitLength(hh) + 1, 0)

\* line 122: xor_tree_num_vectors
ModNumVectors(hh, y_bit_length) == Len(get_reduction_constants(hh, y_bit_length)) + 1

\* line 143: in_poly[W-1:0] of a y_bit_length-bit in_poly. When the net is
\* narrower than W the bits read beyond it are undefined: xfill stands for them.
ModLowBits(yy, y_bit_length, W, xfill) ==
    IF y_bit_length >= W THEN PartSelect(yy, W - 1, 0)
    ELSE yy + ShiftLeft(xfill, y_bit_length)

\* The values the undefined bits of that read can take.
ModFill(hh, y_bit_length) ==
    IF y_bit_length >= ModOutBitLength(hh) THEN {0}
    ELSE 0..((2 ^ (ModOutBitLength(hh) - y_bit_length)) - 1)

\* lines 139-143: slice i is constant i gated by in_poly[out_bit_length + i],
\* the last slice is the low part of in_poly.
ModInVectors(hh, y_bit_length, yy, xfill) ==
    LET W == ModOutBitLength(hh)
        consts == get_reduction_constants(hh, y_bit_length)
        gated == [k \in 1..Len(consts) |->
                     IF PartSelect(yy, W + (k - 1), W + (k - 1)) = 1
                     THEN Trunc(consts[k], W) ELSE 0]
    IN Append(gated, ModLowBits(yy, y_bit_length, W, xfill))

\* out_poly of module gf2_poly_mod_<y_bit_length> for the value yy on in_poly.
mod_module(hh, y_bit_length, yy, xfill) ==
    xor_tree(ModNumVectors(hh, y_bit_length), ModOutBitLength(hh),
             DriveSlices(ModInVectors(hh, y_bit_length, yy, xfill), ModOutBitLength(hh)))

\* One evaluation of an emitted gf2_poly_mod_<bit_length>. The generator
\* emits the module for y_bit_length >= degree(h) only: below that its
\* sub-module step asks for an xor tree of 0 vectors, which raises before any
\* file is written.
InitMod ==
    /\ a = 0 /\ c = 0 /\ h \in 2..MaxH
    /\ \E b \in 1..MaxYBitLength :
          /\ ModSubmoduleNumVectors(h, b) # 0
          /\ bit_length = b /\ in_poly \in 0..((2 ^ b) - 1)
    /\ w_in_vectors = 0 /\ w_out_affine = 0 /\ out_poly = 0
    /\ pc = "assign_inputs"
    /\ IdlePoly /\ IdleXor /\ IdlePrng /\ IdleGen /\ IdleHarness /\ IdleStr /\ IdleTb

ModAssignInputs ==
    /\ pc = "assign_inputs"
    /\ \E xfill \in ModFill(h, bit_length) :
          w_in_vectors' = DriveSlices(ModInVectors(h, bit_length, in_poly, xfill),
                                      ModOutBitLength(h))
    /\ pc' = "xor_tree"
    /\ UNCHANGED <<strVars, tbVars, genVars, harnessVars, paramVars, polyVars, xorVars, prngVars, in_poly, w_out_affine, out_poly>>

ModAssignOutput ==
    /\ pc = "xor_tree"
    /\ out_poly' = xor_tree(ModNumVectors(h, bit_length), ModOutBitLength(h), w_in_vectors)
    /\ pc' = "done"
    /\ UNCHANGED <<strVars, tbVars, genVars, harnessVars, paramVars, polyVars, xorVars, prngVars, in_poly, w_in_vectors, w_out_affine>>

NextMod == ModAssignInputs \/ ModAssignOutput

SpecMod == InitMod /\ [][NextMod]_vars

\* XOR over k = D..b-1 of (poly_mod(1 << k, h) if bit k of y is set, else 0).
RECURSIVE XorOfReducedBits(_, _, _, _)
XorOfReducedBits(yy, hh, D, b) ==
    IF b <= D THEN 0
    ELSE Xor(IF Bit(yy, b - 1) = 1 THEN poly_mod(2 ^ (b - 1), hh) ELSE 0,
             XorOfReducedBits(yy, hh, D, b - 1))

\* C3: for degree(h) = D >= 1 and input width b >= D, the output of the emitted
\* ModularReducer, the XOR of the gated constants poly_mod(1 << i, h), i = D..b-1,
\* and the low D bits of y, equals poly_mod(y, h).
C3_ModModuleEqualsPolyMod ==
    (pc = "done" /\ poly_degree(h) >= 1 /\ bit_length >= poly_degree(h)) =>
        /\ out_poly = poly_mod(in_poly, h)
        /\ out_poly = Xor(XorOfReducedBits(in_poly, h, poly_degree(h), bit_length),
                          in_poly % (2 ^ poly_degree(h)))

C3_Witness ==
    /\ pc = "done" /\ poly_degree(h) = 2 /\ bit_length = 4
    /\ Bit(in_poly, 3) = 1 /\ Bit(in_poly, 2) = 1
    /\ out_poly # in_poly % 4
    /\ out_poly = poly_mod(in_poly, h)

\* ================================================ AffineModularComposer
\* gf2_poly_affine_mod_generator.generate_src, line 68: out_bit_length
ComposerOutBitLength(hh) == BitLength(hh) - 1

\* line 105: affine_out_bit_length = in_bit_length + poly_degree(a)
ComposerAffineOutBitLengthFromBitLength(aa, b) == b + BitLength(aa)
ComposerAffineOutBitLength(aa, b) == b + poly_degree(aa)

\* line 106: mod_in_bit_length, the width of w_in_mod and the suffix of the
\* gf2_poly_mod_<...> instance name
ComposerModInBitLength(aa, b) == ComposerAffineOutBitLength(aa, b)

\* generate_submodules_verilog_and_tb_to_files, lines 246-248: the y_bit_length
\* the reducer is generated with
ComposerSubmoduleModInBitLength(aa, b) == b + poly_degree(aa)

\* lines 117-120 and 133: w_out_affine, the affine_out_bit_length-bit net on the
\* out_poly port of GF2_POLY_AFFINE_<b>, whose in_poly is in_poly.
ComposerOutAffine(aa, cc, b, pp) ==
    Trunc(affine_module(aa, cc, b, Trunc(pp, b)), ComposerAffineOutBitLength(aa, b))

\* lines 125-128, 134, 139: out_poly, the out_bit_length-bit net on the out_poly
\* port of GF2_POLY_MOD_<mod_in_bit_length>, whose in_poly is w_in_mod = w_out_affine.
ComposerOutMod(aa, hh, b, w_in_mod, xfill) ==
    Trunc(mod_module(hh, ComposerSubmoduleModInBitLength(aa, b),
                     Trunc(w_in_mod, ComposerModInBitLength(aa, b)), xfill),
          ComposerOutBitLength(hh))

\* out_poly of module gf2_poly_affine_mod_<b> for the value pp on in_poly.
affine_mod_module(aa, cc, hh, b, pp, xfill) ==
    ComposerOutMod(aa, hh, b, ComposerOutAffine(aa, cc, b, pp), xfill)

\* One evaluation of an emitted gf2_poly_affine_mod_<bit_length>. The
\* composer is emitted after its reducer, so for reducer input widths
\* bit_length + degree(a) >= degree(h) only (see InitMod).
InitComposer ==
    /\ a \in 1..MaxA /\ c \in 0..MaxC /\ h \in 2..MaxH
    /\ \E b \in 1..MaxBitLength :
          /\ ModSubmoduleNumVectors(h, ComposerSubmoduleModInBitLength(a, b)) # 0
          /\ bit_length = b /\ in_poly \in 0..((2 ^ b) - 1)
    /\ w_in_vectors = 0 /\ w_out_affine = 0 /\ out_poly = 0
    /\ pc = "affine"
    /\ IdlePoly /\ IdleXor /\ IdlePrng /\ IdleGen /\ IdleHarness /\ IdleStr /\ IdleTb

ComposerAffine ==
    /\ pc = "affine"
    /\ w_out_affine' = ComposerOutAffine(a, c, bit_length, in_poly)
    /\ pc' = "mod"
    /\ UNCHANGED <<strVars, tbVars, genVars, harnessVars, paramVars, polyVars, xorVars, prngVars, in_poly, w_in_vectors, out_poly>>

ComposerMod ==
    /\ pc = "mod"
    /\ \E xfill \in ModFill(h, ComposerSubmoduleModInBitLength(a, bit_length)) :
          out_poly' = ComposerOutMod(a, h, bit_length, w_out_affine, xfill)
    /\ pc' = "done"
    /\ UNCHANGED <<strVars, tbVars, genVars, harnessVars, paramVars, polyVars, xorVars, prngVars, in_poly, w_in_vectors, w_out_affine>>

NextComposer == ComposerAffine \/ ComposerMod

SpecComposer == InitComposer /\ [][NextComposer]_vars

\* C4: for every a > 0, c >= 0, degree(h) >= 1, b >= 1 and b-bit p the emitted
\* AffineModularComposer outputs poly_affine_mod(a, p, c, h), which equals
\* poly_mod(poly_affine(a, p, c), h).
C4_ComposerEqualsPolyAffineMod ==
    pc = "done" =>
        /\ out_poly = poly_affine_mod(a, in_poly, c, h)
        /\ poly_affine_mod(a, in_poly, c, h) = poly_mod(poly_affine(a, in_poly, c), h)

\* The largest element of a non-empty sequence of naturals.
RECURSIVE MaxOfSeq(_)
MaxOfSeq(s) ==
    IF Len(s) = 1 THEN Head(s)
    ELSE IF Head(s) >= MaxOfSeq(Tail(s)) THEN Head(s) ELSE MaxOfSeq(Tail(s))

\* C5: the composer declares output width degree(h); its intermediate width
\* b + degree(a) is the output width of the AffineTransform it instantiates,
\* max(bitPositions(a)) + b, and the input width of the ModularReducer it
\* instantiates; this for every (a, c, h, b), a = 1 and c = 0 included.
C5_ComposerWidthsAgree ==
    pc \in {"affine", "mod", "done"} =>
        /\ ComposerOutBitLength(h) = poly_degree(h)
        /\ ComposerOutBitLength(h) = ModOutBitLength(h)
        /\ ComposerAffineOutBitLength(a, bit_length) = bit_length + poly_degree(a)
        /\ ComposerAffineOutBitLength(a, bit_length) = AffineOutBitLength(a, bit_length)
        /\ AffineOutBitLength(a, bit_length) = MaxOfSeq(get_bit_positions(a)) + bit_length
        /\ ComposerModInBitLength(a, bit_length) = ComposerAffineOutBitLength(a, bit_length)
        /\ ComposerModInBitLength(a, bit_length) = ComposerSubmoduleModInBitLength(a, bit_length)

C5_Witness ==
    /\ pc = "done" /\ a = 1 /\ c = 0 /\ poly_degree(h) = 2 /\ bit_length = 2
    /\ ComposerAffineOutBitLength(a, bit_length) = 2
    /\ ComposerOutBitLength(h) = 2

\* ================================================ SequentialPRNGWrapper
\* gf2e_prng_tool.generate_src, line 187: e = bit_length = poly_degree(h)
PrngBitLength(hh) == poly_degree(hh)

\* lines 239-247: next_state, the e-bit wire on the out_poly port of
\* GF2_POLY_AFFINE_MOD_<e>, whose in_poly is state. The reducer input is
\* e + degree(a) >= e bits wide, so no read of it is out of range.
PrngNextState(aa, cc, hh, st) ==
    Trunc(affine_mod_module(aa, cc, hh, PrngBitLength(hh),
                            Trunc(st, PrngBitLength(hh)), 0),
          PrngBitLength(hh))

\* lines 252-257: the value the register takes at posedge clk
PrngRegisterUpdateIgnoresEnable(r, en, sd, st, next_state) ==
    IF r = 1 THEN sd ELSE next_state
PrngRegisterUpdateEnableFirst(r, en, sd, st, next_state) ==
    IF en = 1 THEN next_state ELSE IF r = 1 THEN sd ELSE st
PrngRegisterUpdate(r, en, sd, st, next_state) ==
    IF r = 1 THEN sd ELSE IF en = 1 THEN next_state ELSE st

\* line 262: assign prng_out = state
prng_out == state

\* random_computation_example, lines 288-293: poly_affine_mod applied k times,
\* prng_in = prng_out after each pass (a polynomial is never negative: the
\* comparison only has the value of a pass computed before the next starts).
RECURSIVE IterAffineMod(_, _, _, _, _)
IterAffineMod(aa, cc, hh, prng_in, k) ==
    IF k = 0 \/ prng_in < 0 THEN prng_in
    ELSE IterAffineMod(aa, cc, hh, poly_affine_mod(aa, prng_in, cc, hh), k - 1)

\* The module gf2_<e>_prng of a project built by main() (or the GUI handler):
\* a and c are reduced modulo h before generate_project, and a project whose
\* reduced a is 0 is never completed. The register powers up undefined. The
\* environment drives rst, enable and seed; x0 records the seed loaded by the
\* last reset and i counts the enabled edges since then.
Init ==
    /\ h \in 2..MaxH
    /\ \E arg_a \in 1..MaxA, arg_c \in 0..MaxC :
          /\ a = poly_mod(arg_a, h)
          /\ c = poly_mod(arg_c, h)
    /\ a # 0
    /\ bit_length = PrngBitLength(h)
    /\ clk = 0 /\ rst = 0 /\ enable = 0
    /\ seed \in 0..((2 ^ PrngBitLength(h)) - 1)
    /\ state \in 0..((2 ^ PrngBitLength(h)) - 1)
    /\ i = 0 /\ x0 = 0 /\ loaded = FALSE
    /\ pc = "prng"
    /\ IdlePoly /\ IdleNets /\ IdleXor /\ IdleGen /\ IdleHarness /\ IdleStr /\ IdleTb

DriveInputs ==
    /\ pc = "prng"
    /\ rst' \in {0, 1} /\ enable' \in {0, 1}
    /\ seed' \in 0..((2 ^ PrngBitLength(h)) - 1)
    /\ UNCHANGED <<strVars, tbVars, genVars, harnessVars, pc, paramVars, polyVars, netVars, xorVars, clk, state, i, x0, loaded>>

PosedgeClk ==
    /\ pc = "prng" /\ clk = 0
    \* the count of enabled edges is followed up to MaxSteps
    /\ (rst = 0 /\ enable = 1 /\ loaded) => i < MaxSteps
    /\ clk' = 1
    /\ state' = PrngRegisterUpdate(rst, enable, seed, state, PrngNextState(a, c, h, state))
    /\ IF rst = 1 THEN loaded' = TRUE /\ x0' = seed /\ i' = 0
       ELSE IF enable = 1 /\ loaded THEN i' = i + 1 /\ UNCHANGED <<x0, loaded>>
       ELSE UNCHANGED <<i, x0, loaded>>
    /\ UNCHANGED <<strVars, tbVars, genVars, harnessVars, pc, paramVars, polyVars, netVars, xorVars, rst, enable, seed>>

NegedgeClk ==
    /\ pc = "prng" /\ clk = 1
    /\ clk' = 0
    /\ UNCHANGED <<strVars, tbVars, genVars, harnessVars, pc, paramVars, polyVars, netVars, xorVars,
                   rst, enable, seed, state, i, x0, loaded>>

Next == DriveInputs \/ PosedgeClk \/ NegedgeClk

Spec == Init /\ [][Next]_vars

\* C6: after a clock edge with rst = 1 has loaded seed S, and any later edges
\* with rst = 0 of which k had enable = 1, prng_out is poly_affine_mod(a, ., c, h)
\* applied k times to S (S itself for k = 0); the state stays below 2^degree(h).
C6_PrngFollowsRecurrence ==
    /\ state < 2 ^ poly_degree(h)
    /\ loaded => prng_out = IterAffineMod(a, c, h, x0, i)

C6_Witness ==
    /\ loaded /\ i = MaxSteps /\ poly_degree(h) = 2 /\ poly_degree(a) = 1 /\ c # 0
    /\ prng_out = IterAffineMod(a, c, h, x0, i)
    /\ prng_out # x0
    /\ IterAffineMod(a, c, h, x0, 1) # x0
    /\ IterAffineMod(a, c, h, x0, 2) # IterAffineMod(a, c, h, x0, 1)

\* C7: at every rising clock edge the next state is seed if rst = 1 (whatever
\* enable is), else the AffineModularComposer output for the current state if
\* enable = 1, else the current state; prng_out is the current state.
C7_ResetEnableHold ==
    [][ /\ (clk = 0 /\ clk' = 1) =>
            /\ (rst = 1 => state' = seed)
            /\ (rst = 0 /\ enable = 1 =>
                    state' = affine_mod_module(a, c, h, poly_degree(h), state, 0))
            /\ (rst = 0 /\ enable = 0 => state' = state)
        /\ prng_out' = state' ]_vars

C7_Witness ==
    /\ clk = 1 /\ rst = 1 /\ enable = 1 /\ loaded /\ i = 0
    /\ state = seed /\ x0 = seed
    /\ PrngNextState(a, c, h, state) # state

\* ============================================ C11..C20: further properties
\* C11: reducing a and c modulo h beforehand never changes the recurrence:
\* for degree(h) >= 1, poly_affine_mod(poly_mod(a,h), p, poly_mod(c,h), h)
\* equals poly_affine_mod(a, p, c, h) (the value the call computed), and the
\* state sequence from any seed p is the same with and without pre-reduction.
C11_PreReductionKeepsRecurrence ==
    (pc = "done" /\ poly_degree(h) >= 1) =>
        /\ poly_affine_mod(poly_mod(a, h), p, poly_mod(c, h), h) = rem
        /\ poly_affine_mod(poly_mod(a, h), p, poly_mod(c, h), h)
               = poly_affine_mod(a, p, c, h)
        /\ \A k \in 0..MaxSteps :
               IterAffineMod(poly_mod(a, h), poly_mod(c, h), h, p, k)
                   = IterAffineMod(a, c, h, p, k)

C11_Witness ==
    /\ pc = "done" /\ poly_degree(h) >= 1
    /\ poly_mod(a, h) # a /\ poly_mod(a, h) # 0 /\ poly_mod(c, h) # c
    /\ p > 1 /\ rem # 0

\* ========================================================= SpecPolyMod
\* One call poly_mod(y, h) with any modulus h >= 0, pass by pass. Python
\* runs the next statement whenever there is one (weak fairness).
MaxY == 2 ^ MaxYBitLength - 1

InitPolyMod ==
    /\ a = 0 /\ c = 0 /\ bit_length = 0
    /\ h \in 0..MaxH /\ y \in 0..MaxY
    /\ p = 0 /\ out = 0 /\ positions = <<>>
    /\ rem = PolyModStart(y, h) /\ iters = 0
    /\ pc = "mod_loop"
    /\ IdleNets /\ IdleXor /\ IdlePrng /\ IdleGen /\ IdleHarness /\ IdleStr /\ IdleTb

NextPolyMod == PolyModIter \/ PolyModDone

SpecPolyMod == InitPolyMod /\ [][NextPolyMod]_vars /\ WF_vars(NextPolyMod)

\* C12: for y >= 0 and h > 0 the call poly_mod(y, h) returns; every pass of
\* its loop strictly lowers poly_degree(rem); and the number of passes never
\* exceeds max(0, poly_degree(y) - poly_degree(h) + 1).
C12_PolyModTerminates ==
    /\ [](h > 0 => <>(pc = "done"))
    /\ [][(h > 0 /\ iters' = iters + 1) =>
              poly_degree(rem') < poly_degree(rem)]_vars
    /\ [](h > 0 => iters <= Max(0, poly_degree(y) - poly_degree(h) + 1))

C12_Witness ==
    /\ pc = "done" /\ h > 1 /\ iters >= 3
    /\ iters = poly_degree(y) - poly_degree(h) + 1

\* C13: a call poly_mod(y, 0) is rejected at once: it makes no pass through
\* the loop and returns no value.
C13_ZeroModulusRejected ==
    h = 0 => (iters = 0 /\ pc # "done")

\* ============================================================= SpecGen
\* One run of a program of the repository that writes files: the main() of
\* a generator, the main() of gf2e_prng_tool, or the GUI handler
\* generate_project. The arguments are those argparse lets through
\* (positive_int, nonnegative_int), for the GUI any parsed polynomials.
\* A file is named by its directory, its kind and the sizes in its name
\* (xor_tree_<N>_<W>.v is kind "xor_tree" with sizes <<N, W>> under "src"),
\* and carries the arguments generate_src / generate_tb were called with,
\* which determine its text.
File(dir, kind, sizes, args) ==
    [dir |-> dir, kind |-> kind, sizes |-> sizes, args |-> args]

\* open(path, "w"); f.write(code): the file is created or overwritten.
WriteStep(dir, kind, sizes, args) ==
    [op |-> "write", file |-> File(dir, kind, sizes, args)]

\* An uncaught IndexError raised in generator `kind` called with `args`.
RaiseStep(kind, args) == [op |-> "raise", file |-> File("", kind, args, args)]

\* The tail of every generate_verilog_and_tb_to_files: the module under
\* src/, then its testbench under tb/.
ModuleAndTb(kind, sizes, args) ==
    <<WriteStep("src", kind, sizes, args), WriteStep("tb", kind, sizes, args)>>

\* xor_tree_generator.generate_verilog_and_tb_to_files: generate_src indexes
\* current_level[0], which raises for an empty list of input vectors.
XorTreeFilesNamedByCount(N, W) ==
    IF N = 0 THEN <<RaiseStep("xor_tree", <<N, W>>)>>
    ELSE ModuleAndTb("xor_tree", <<N>>, <<N, W>>)
xor_tree_files(N, W) ==
    IF N = 0 THEN <<RaiseStep("xor_tree", <<N, W>>)>>
    ELSE ModuleAndTb("xor_tree", <<N, W>>, <<N, W>>)

\* gf2_poly_affine_generator.generate_submodules_verilog_and_tb_to_files: the
\* xor tree asked for, from a_ones, c and bit_length.
AffineSubmoduleNumVectorsIgnoresC(aa, cc) == Len(Reverse(get_bit_positions(aa)))
AffineSubmoduleNumVectors(aa, cc) ==
    IF cc # 0 THEN Len(Reverse(get_bit_positions(aa))) + 1
    ELSE Len(Reverse(get_bit_positions(aa)))
AffineSubmoduleBitLength(aa, b) == Reverse(get_bit_positions(aa))[1] + b

\* gf2_poly_affine_generator.generate_verilog_and_tb_to_files: the sub-module
\* step indexes a_ones[0], which raises for a = 0.
affine_files(aa, cc, b) ==
    IF AffineOnes(aa) = <<>> THEN <<RaiseStep("gf2_poly_affine", <<aa, cc, b>>)>>
    ELSE xor_tree_files(AffineSubmoduleNumVectors(aa, cc), AffineSubmoduleBitLength(aa, b))
         \o ModuleAndTb("gf2_poly_affine", <<b>>, <<aa, cc, b>>)

\* gf2_poly_mod_generator.generate_submodules_verilog_and_tb_to_files:
\* bit_length = out_bit_length = h.bit_length() - 1
ModSubmoduleBitLength(hh) == BitLength(hh) - 1

mod_files(hh, y_bit_length) ==
    xor_tree_files(ModSubmoduleNumVectors(hh, y_bit_length), ModSubmoduleBitLength(hh))
    \o ModuleAndTb("gf2_poly_mod", <<y_bit_length>>, <<hh, y_bit_length>>)

\* gf2_poly_affine_mod_generator.generate_verilog_and_tb_to_files
AffineModFilesModuleFirst(aa, cc, hh, b) ==
    ModuleAndTb("gf2_poly_affine_mod", <<b>>, <<aa, cc, hh, b>>)
    \o affine_files(aa, cc, b)
    \o mod_files(hh, ComposerSubmoduleModInBitLength(aa, b))
affine_mod_files(aa, cc, hh, b) ==
    affine_files(aa, cc, b)
    \o mod_files(hh, ComposerSubmoduleModInBitLength(aa, b))
    \o ModuleAndTb("gf2_poly_affine_mod", <<b>>, <<aa, cc, hh, b>>)

\* gf2e_prng_tool.generate_submodules_verilog_and_tb_to_files:
\* bit_length = poly_degree(h)
PrngSubmoduleBitLength(hh) == poly_degree(hh)

\* gf2e_prng_tool.generate_verilog_and_tb_to_files
prng_files(aa, cc, hh) ==
    affine_mod_files(aa, cc, hh, PrngSubmoduleBitLength(hh))
    \o ModuleAndTb("gf2_prng", <<poly_degree(hh)>>, <<aa, cc, hh>>)

\* gf2e_prng_tool.generate_project
generate_project(aa, cc, hh) ==
    prng_files(aa, cc, hh)
    \o <<WriteStep("project", "modelsim", <<>>, <<>>),
         WriteStep("project", "README.md", <<>>, <<aa, cc, hh>>),
         WriteStep("project", "LICENSE", <<>>, <<>>)>>

GeneratorMains == {"xor_tree", "gf2_poly_affine", "gf2_poly_mod"}
ReducingMains == {"gf2_poly_affine_mod", "gf2e_prng_tool"}
PrngIntakes == {"gf2e_prng_tool", "gf2e_prng_tool_app"}

InitGen ==
    /\ \/ /\ entry = "xor_tree"
          /\ num_vectors \in 1..MaxVectors /\ bit_length \in 1..MaxBitLength
          /\ a = 0 /\ c = 0 /\ h = 0
       \/ /\ entry = "gf2_poly_affine"
          /\ a \in 1..MaxA /\ c \in 0..MaxC /\ bit_length \in 1..MaxBitLength
          /\ h = 0 /\ num_vectors = 0
       \/ /\ entry = "gf2_poly_mod"
          /\ h \in 1..MaxH /\ bit_length \in 1..MaxYBitLength
          /\ a = 0 /\ c = 0 /\ num_vectors = 0
       \/ /\ entry = "gf2_poly_affine_mod"
          /\ a \in 1..MaxA /\ c \in 0..MaxC /\ h \in 1..MaxH
          /\ bit_length \in 1..MaxBitLength /\ num_vectors = 0
       \/ /\ entry = "gf2e_prng_tool"
          /\ a \in 1..MaxA /\ c \in 0..MaxC /\ h \in 1..MaxH
          /\ bit_length = 0 /\ num_vectors = 0
       \/ /\ entry = "gf2e_prng_tool_app"
          /\ a \in 0..MaxA /\ c \in 0..MaxC /\ h \in 0..MaxH
          /\ bit_length = 0 /\ num_vectors = 0
    /\ pc = "main"
    /\ todo = <<>> /\ written = <<>> /\ reported = <<>>
    /\ code_input = <<>> /\ in_vectors = 0
    /\ current_level = <<>> /\ stage = 0 /\ out_xor = 0 /\ assigns = <<>>
    /\ IdlePoly /\ IdleNets /\ IdlePrng /\ IdleHarness /\ IdleStr /\ IdleTb

idleWires == <<polyVars, netVars, xorVars, prngVars, harnessVars, strVars, tbVars>>

\* main() of a generator that passes its arguments on unchanged.
MainGenerator ==
    /\ pc = "main" /\ entry \in GeneratorMains
    /\ todo' = IF entry = "xor_tree" THEN xor_tree_files(num_vectors, bit_length)
               ELSE IF entry = "gf2_poly_affine" THEN affine_files(a, c, bit_length)
               ELSE mod_files(h, bit_length)
    /\ pc' = "generate"
    /\ UNCHANGED <<paramVars, idleWires, entry, written, reported>>

\* main() of the composer and of gf2e_prng_tool: a and c are reduced modulo
\* h, then the generation is called at once.
MainReduce ==
    /\ pc = "main" /\ entry \in ReducingMains
    /\ a' = poly_mod(a, h)
    /\ c' = poly_mod(c, h)
    /\ todo' = IF entry = "gf2_poly_affine_mod"
               THEN affine_mod_files(poly_mod(a, h), poly_mod(c, h), h, bit_length)
               ELSE generate_project(poly_mod(a, h), poly_mod(c, h), h)
    /\ pc' = "generate"
    /\ UNCHANGED <<h, bit_length, idleWires, entry, written, reported>>

\* GUI handler, "if h == 0": a message box, and the handler goes on.
GuiCheckModulus ==
    /\ pc = "main" /\ entry = "gf2e_prng_tool_app"
    /\ reported' = IF h = 0 THEN Append(reported, "h_zero") ELSE reported
    /\ pc' = "reduce"
    /\ UNCHANGED <<paramVars, idleWires, entry, todo, written>>

\* GUI handler, a = poly_mod(a, h); c = poly_mod(c, h). With h = 0 the first
\* call never returns.
GuiReduce ==
    /\ pc = "reduce"
    /\ IF h = 0 THEN pc' = "hang" /\ UNCHANGED <<a, c>>
       ELSE /\ a' = poly_mod(a, h)
            /\ c' = poly_mod(c, h)
            /\ pc' = "check_a"
    /\ UNCHANGED <<h, bit_length, idleWires, genVars>>

\* GUI handler, "if a == 0": a message box and return; else the project is
\* generated.
GuiCheckA ==
    /\ pc = "check_a"
    /\ IF a = 0
       THEN /\ reported' = Append(reported, "a_zero")
            /\ pc' = "returned"
            /\ UNCHANGED todo
       ELSE /\ todo' = generate_project(a, c, h)
            /\ pc' = "generate"
            /\ UNCHANGED reported
    /\ UNCHANGED <<paramVars, idleWires, entry, written>>

\* The next file of the run is written.
GenWrite ==
    /\ pc = "generate" /\ todo # <<>> /\ Head(todo).op = "write"
    /\ written' = Append(written, Head(todo).file)
    /\ todo' = Tail(todo)
    /\ UNCHANGED <<pc, paramVars, idleWires, entry, reported>>

\* The next step raises: the exception is caught nowhere and ends the run
\* (the step that raised stays at the head of todo).
GenRaise ==
    /\ pc = "generate" /\ todo # <<>> /\ Head(todo).op = "raise"
    /\ pc' = "failed"
    /\ UNCHANGED <<paramVars, idleWires, genVars>>

\* The generation returns; the GUI handler then shows its success box.
GenReturn ==
    /\ pc = "generate" /\ todo = <<>>
    /\ reported' = IF entry = "gf2e_prng_tool_app"
                   THEN Append(reported, "success") ELSE reported
    /\ pc' = "done"
    /\ UNCHANGED <<paramVars, idleWires, entry, todo, written>>

NextGen ==
    \/ MainGenerator \/ MainReduce
    \/ GuiCheckModulus \/ GuiReduce \/ GuiCheckA
    \/ GenWrite \/ GenRaise \/ GenReturn

SpecGen == InitGen /\ [][NextGen]_vars

\* C14: a request outside the contract (no input vector, a zero bit width,
\* a reducer input narrower than degree(h); for the composer
\* b + degree(a) < degree(h)) fails, and no file of the request or of its
\* sub-modules is written.
RequestOutOfContract ==
    \/ entry = "xor_tree" /\ (num_vectors = 0 \/ bit_length = 0)
    \/ entry = "gf2_poly_affine" /\ bit_length = 0
    \/ entry = "gf2_poly_mod"
           /\ (bit_length = 0 \/ bit_length < poly_degree(h))
    \/ entry = "gf2_poly_affine_mod"
           /\ (bit_length = 0 \/ bit_length + poly_degree(a) < poly_degree(h))

C14_OutOfContractWritesNothing ==
    (RequestOutOfContract /\ pc \in {"generate", "failed", "done"}) =>
        (written = <<>> /\ pc # "done")

\* C15: a request to the AffineTransform generator with a = 0 and b >= 1,
\* whatever c, completes without an error.
C15_AffineAcceptsZeroA ==
    ~(/\ pc = "failed"
      /\ Head(todo).file.kind = "gf2_poly_affine"
      /\ Head(todo).file.sizes[1] = 0
      /\ Head(todo).file.sizes[3] >= 1)

\* C16: on both intake paths of the PRNG project (main of gf2e_prng_tool, GUI
\* handler), when a mod h = 0 the generation of the project is entered only
\* after the degenerate recurrence has been reported.
C16_DegenerateReportedBeforeCore ==
    (entry \in PrngIntakes /\ pc \in {"generate", "failed", "done"} /\ a = 0) =>
        \E k \in 1..Len(reported) : reported[k] = "a_zero"

\* The path of a file: directory, kind and the sizes in its name.
FileName(f) == [dir |-> f.dir, kind |-> f.kind, sizes |-> f.sizes]

\* C17: within one run no file (kind plus sizes, per directory) is written
\* twice.
C17_ShapeEmittedOnce ==
    \A j, k \in 1..Len(written) : j # k => FileName(written[j]) # FileName(written[k])

\* ========================================================= SpecHarness
\* Harness examples drawn from the process-wide generator of Python's random
\* module. The Mersenne Twister is replaced by a stand-in with the same
\* interface: its state is the seed it was last given and the number of draws
\* made since (modulo RngPeriod), and a draw is a fixed function of the two.
RngPeriod == 8
DefaultSeed == 42
HarnessIterations == 100
MaxHarnessArg == 1

RngStates == {[seed |-> s, drawn |-> n] : s \in {0, DefaultSeed}, n \in 0..(RngPeriod - 1)}

\* random.seed(seed)
RandomSeedKeepsState(r, sd) == r
RandomSeed(r, sd) == [seed |-> sd, drawn |-> 0]

\* random.randint(0, max_val): the value drawn, and the state after the draw
RandInt(r, max_val) == (7 * r.seed + 5 * r.drawn + (r.drawn \div 2)) % (max_val + 1)
RngAdvance(r) == [r EXCEPT !.drawn = (r.drawn + 1) % RngPeriod]

\* [random.randint(0, max_val) for _ in range(num_vectors)]
RECURSIVE RandIntLoop(_, _, _)
RandIntLoop(r, n, max_val) ==
    IF n = 0 THEN [ints |-> <<>>, rng |-> r]
    ELSE LET rest == RandIntLoop(RngAdvance(r), n - 1, max_val)
         IN [ints |-> <<RandInt(r, max_val)>> \o rest.ints, rng |-> rest.rng]

\* generate_random_integers(num_vectors, bit_length, seed) called with the
\* shared generator in state r: the list returned and the state left behind.
generate_random_integers(r, N, W, sd) ==
    RandIntLoop(RandomSeed(r, sd), N, (2 ^ W) - 1)

\* xor_tree_generator.random_computation_example: code_input and
\* expected_code_output, with the shared generator in state r
XorCodeInput(r, N, W) == generate_random_integers(r, N, W, DefaultSeed).ints
XorExpectedCodeOutput(r, N, W) == xor_integers(XorCodeInput(r, N, W))

\* gf2e_prng_tool.random_computation_example
PrngCodeInput(r, hh) ==
    generate_random_integers(r, 1, poly_degree(hh), DefaultSeed).ints[1]
PrngExpectedCodeOutput(r, aa, cc, hh) ==
    IterAffineMod(aa, cc, hh, PrngCodeInput(r, hh), HarnessIterations)

\* The generator may be in any state when the first harness is generated;
\* a, c, h are the parameters of the PRNG project (reduced as main() does).
InitHarness ==
    /\ h \in 2..MaxH
    /\ \E arg_a \in 1..MaxHarnessArg, arg_c \in 0..MaxHarnessArg :
          /\ a = poly_mod(arg_a, h)
          /\ c = poly_mod(arg_c, h)
    /\ a # 0
    /\ bit_length = poly_degree(h)
    /\ rng \in RngStates
    /\ kept = NoExample /\ example = NoExample
    /\ pc = "harness"
    /\ IdlePoly /\ IdleNets /\ IdleXor /\ IdlePrng /\ IdleGen /\ IdleStr /\ IdleTb

\* What is recorded of a generation that produced ex: the first example may
\* be kept; later ones with the same generator and arguments are recorded
\* next to it, others are noted as having run in between.
Example(gen, args, code, expected, between) ==
    [gen |-> gen, args |-> args, code_input |-> code,
     expected_code_output |-> expected, between |-> between]

Record(gen, args, code, expected) ==
    IF kept = NoExample
    THEN /\ kept' \in {NoExample,
                       Example(gen, args, code, expected, FALSE)}
         /\ example' = example
    ELSE IF gen = kept.gen /\ args = kept.args
    THEN /\ example' = Example(gen, args, code, expected, kept.between)
         /\ kept' = kept
    ELSE kept' = [kept EXCEPT !.between = TRUE] /\ example' = example

HarnessXorTree ==
    /\ pc = "harness"
    /\ \E N \in 1..MaxVectors, W \in 1..MaxBitLength :
          /\ rng' = generate_random_integers(rng, N, W, DefaultSeed).rng
          /\ Record("xor_tree", <<N, W>>, XorCodeInput(rng, N, W),
                    XorExpectedCodeOutput(rng, N, W))
    /\ UNCHANGED <<pc, paramVars, polyVars, netVars, xorVars, prngVars, genVars, strVars, tbVars>>

HarnessPrng ==
    /\ pc = "harness"
    /\ rng' = generate_random_integers(rng, 1, poly_degree(h), DefaultSeed).rng
    /\ Record("gf2e_prng_tool", <<a, c, h>>, <<PrngCodeInput(rng, h)>>,
              PrngExpectedCodeOutput(rng, a, c, h))
    /\ UNCHANGED <<pc, paramVars, polyVars, netVars, xorVars, prngVars, genVars, strVars, tbVars>>

NextHarness == HarnessXorTree \/ HarnessPrng

SpecHarness == InitHarness /\ [][NextHarness]_vars

\* C18: two generations of the same generator with the same parameters give
\* the same stimulus and the same golden value, whatever state the shared
\* random generator was in and whichever generations ran in between.
C18_GenerationDeterministic ==
    example # NoExample =>
        /\ example.code_input = kept.code_input
        /\ example.expected_code_output = kept.expected_code_output

C18_Witness ==
    /\ example # NoExample /\ example.between
    /\ example.gen = "xor_tree" /\ Len(example.code_input) >= 3
    /\ example.code_input[1] # example.code_input[2]
    /\ rng.drawn # Len(example.code_input)

\* The set bit positions of q.
BitSet(q) == {k \in 0..BitLength(q) : Bit(q, k) = 1}

C20_ReducerConstants ==
    LET D == poly_degree(h)
        b == bit_length
        W == ModOutBitLength(h)
        N == ModNumVectors(h, b)
        consts == get_reduction_constants(h, b)
    IN (D >= 1 /\ b >= D) =>
          /\ W = D /\ N = b - D + 1
          /\ Len(consts) = b - D
          /\ \A k \in 1..Len(consts) :
                /\ poly_degree(consts[k]) < D
                /\ \E q \in 0..((2 ^ k) - 1) :
                      Xor(XorOfShifts(q, h, BitLength(q) + BitLength(h)), consts[k])
                          = 2 ^ (D + k - 1)
          /\ pc \in {"xor_tree", "done"} =>
                /\ \A k \in 1..Len(consts) :
                      PartSelect(w_in_vectors, k * W - 1, (k - 1) * W)
                          = IF Bit(in_poly, D + k - 1) = 1 THEN consts[k] ELSE 0
                /\ PartSelect(w_in_vectors, N * W - 1, (N - 1) * W)
                       = in_poly % (2 ^ D)
          /\ get_reduction_constants(285, 12) = <<29, 58, 116, 232>>
          /\ ModNumVectors(285, 12) = 5 /\ ModOutBitLength(285) = 8

C20_Witness ==
    /\ pc = "done" /\ poly_degree(h) >= 2 /\ bit_length >= poly_degree(h) + 2
    /\ Bit(in_poly, bit_length - 1) = 1 /\ Bit(in_poly, poly_degree(h)) = 0
    /\ get_reduction_constants(h, bit_length)[bit_length - poly_degree(h)] # 0

\* ============================================ C21..C30: further properties
\* ceil(n / d) and ceil(log2 n), stated arithmetically.
CeilDiv(n, d) == (n + d - 1) \div d
CeilLog2(n) == CHOOSE k \in 0..n : 2 ^ k >= n /\ (k = 0 \/ 2 ^ (k - 1) < n)

\* The wires vec_<s>_* the emitted tree declares at stage s.
WiresOfStage(s) == {k \in 1..Len(assigns) : assigns[k].net = "vec" /\ assigns[k].stage = s}

\* C21: the emitted XOR tree for N >= 1 has exactly ceil(log2 N) stages and
\* stage s holds ceil(N / 2^s) wires; at a stage with an odd number of wires
\* the last wire is copied unchanged to the next stage (its assignment reads
\* that wire alone and no XOR of the stage reads it); for N = 1 there is no
\* stage and out_xor is input vector 0.
C21_TreeStages ==
    /\ [](pc \in {"tree", "done"} =>
            /\ Len(current_level) = CeilDiv(num_vectors, 2 ^ (stage - 1))
            /\ \A s \in 0..(stage - 1) :
                  Cardinality(WiresOfStage(s)) = CeilDiv(num_vectors, 2 ^ s)
            /\ WiresOfStage(stage) = {})
    /\ [](pc = "done" =>
            /\ stage - 1 = CeilLog2(num_vectors)
            /\ num_vectors = 1 =>
                  /\ stage - 1 = 0
                  /\ assigns[Len(assigns)].reads = <<(<<0, 0>>)>>
                  /\ out_xor = PartSelect(in_vectors, bit_length - 1, 0))
    /\ [][(stage' = stage + 1 /\ pc = "tree" /\ Len(current_level) % 2 = 1) =>
            LET n == Len(current_level)
                last == assigns'[Len(assigns')]
            IN  /\ current_level'[Len(current_level')] = current_level[n]
                /\ last.reads = <<(<<stage - 1, n - 1>>)>>
                /\ \A k \in (Len(assigns) + 1)..(Len(assigns') - 1) :
                      \A r \in 1..Len(assigns'[k].reads) :
                          assigns'[k].reads[r] # <<stage - 1, n - 1>>]_vars

C21_Witness ==
    /\ pc = "done" /\ num_vectors = 3 /\ stage - 1 = 2
    /\ Cardinality(WiresOfStage(1)) = 2 /\ Cardinality(WiresOfStage(2)) = 1
    /\ \E k \in WiresOfStage(1) : assigns[k].reads = <<(<<0, 2>>)>>
    /\ code_input[3] # 0

\* The module a source text instantiates, by the name generate_src writes
\* into it: kind and sizes.
Module(kind, sizes) == [kind |-> kind, sizes |-> sizes]

\* gf2_poly_affine_generator.generate_src: xor_tree_<N>_<W> XOR_TREE_<N>_<W>
AffineSrcInstances(aa, cc, b) ==
    {Module("xor_tree", <<AffineNumVectors(aa, cc), AffineOutBitLength(aa, b)>>)}

\* gf2_poly_mod_generator.generate_src: xor_tree_<N>_<W> XOR_TREE_<N>_<W>
ModSrcInstances(hh, y_bit_length) ==
    {Module("xor_tree", <<ModNumVectors(hh, y_bit_length), ModOutBitLength(hh)>>)}

\* gf2_poly_affine_mod_generator.generate_src: gf2_poly_affine_<in> and
\* gf2_poly_mod_<mod_in>
ComposerSrcInstances(aa, b) ==
    {Module("gf2_poly_affine", <<b>>),
     Module("gf2_poly_mod", <<ComposerModInBitLength(aa, b)>>)}

\* gf2e_prng_tool.generate_src: gf2_poly_affine_mod_<bit_length>
PrngSrcInstances(hh) == {Module("gf2_poly_affine_mod", <<PrngBitLength(hh)>>)}

\* The modules instantiated by the module a written file belongs to.
Instantiated(f) ==
    IF f.kind = "gf2_poly_affine" THEN AffineSrcInstances(f.args[1], f.args[2], f.args[3])
    ELSE IF f.kind = "gf2_poly_mod" THEN ModSrcInstances(f.args[1], f.args[2])
    ELSE IF f.kind = "gf2_poly_affine_mod" THEN ComposerSrcInstances(f.args[1], f.args[4])
    ELSE IF f.kind = "gf2_prng" THEN PrngSrcInstances(f.args[3])
    ELSE {}

\* The file of module m under directory d has been written before position k.
WrittenBefore(m, d, k) ==
    \E j \in 1..(k - 1) :
        FileName(written[j]) = [dir |-> d, kind |-> m.kind, sizes |-> m.sizes]

\* C22: during generate_project a file of a module (source or testbench) is
\* written only after the source and the testbench of every module it
\* instantiates: each xor_tree before the gf2_poly_affine / gf2_poly_mod that
\* uses it, both before gf2_poly_affine_mod, and that one before gf2_<e>_prng.
C22_DependenciesFirst ==
    entry \in PrngIntakes =>
        \A k \in 1..Len(written) : \A m \in Instantiated(written[k]) :
            WrittenBefore(m, "src", k) /\ WrittenBefore(m, "tb", k)

C22_Witness ==
    /\ entry = "gf2e_prng_tool" /\ pc = "done" /\ a = 3 /\ c = 1 /\ h = 7
    /\ Len(written) = 15
    /\ written[1].kind = "xor_tree" /\ written[1].sizes = <<3, 3>>
    /\ written[3].kind = "gf2_poly_affine"
    /\ written[5].kind = "xor_tree" /\ written[5].sizes = <<2, 2>>
    /\ written[7].kind = "gf2_poly_mod" /\ written[7].sizes = <<3>>
    /\ written[9].kind = "gf2_poly_affine_mod"
    /\ written[11].kind = "gf2_prng"

\* ============================================================= SpecStr
\* gf2_poly_utils.str_poly_to_int and int_poly_to_str. A string is the
\* sequence of its characters.
MaxStrPoly == 21
MaxStrShift == 11
MaxStrLen == 4
MaxDegreeStr == 22

DigitChars == <<"0", "1", "2", "3", "4", "5", "6", "7", "8", "9",
                "a", "b", "c", "d", "e", "f">>

\* str(n), and the digits of hex(n) and bin(n): the numeral of n >= 0 in a
\* base, most significant digit first, "0" for 0.
RECURSIVE Numeral(_, _)
Numeral(n, base) ==
    IF n < base THEN <<DigitChars[n + 1]>>
    ELSE Append(Numeral(n \div base, base), DigitChars[(n % base) + 1])

\* The value of a digit character in a base, -1 when it is none.
DigitValue(ch, base) ==
    IF \E d \in 1..base : DigitChars[d] = ch
    THEN (CHOOSE d \in 1..base : DigitChars[d] = ch) - 1
    ELSE -1

\* int(s, base) on a string of digits: its value, or -1 for the ValueError
\* raised on an empty string or a character that is no digit of the base.
RECURSIVE ParseDigits(_, _, _)
ParseDigits(str, base, acc) ==
    IF str = <<>> THEN acc
    ELSE IF DigitValue(Head(str), base) < 0 THEN -1
    ELSE ParseDigits(Tail(str), base, acc * base + DigitValue(Head(str), base))

\* int(s, base) with the base prefix ("0x", "0b") it accepts for 16 and 2.
ParseInt(str, base, prefix) ==
    LET body == IF prefix # <<>> /\ Len(str) >= 2 /\ SubSeq(str, 1, 2) = prefix
                THEN SubSeq(str, 3, Len(str)) ELSE str
    IN  IF body = <<>> THEN -1 ELSE ParseDigits(body, base, 0)

\* poly_str.replace(" ", "")
RECURSIVE RemoveSpaces(_)
RemoveSpaces(str) ==
    IF str = <<>> THEN <<>>
    ELSE IF Head(str) = " " THEN RemoveSpaces(Tail(str))
    ELSE <<Head(str)>> \o RemoveSpaces(Tail(str))

\* Length of the longest run of decimal digits at the front of str (\d+).
RECURSIVE DigitRun(_)
DigitRun(str) ==
    IF str # <<>> /\ DigitValue(Head(str), 10) >= 0 THEN 1 + DigitRun(Tail(str)) ELSE 0

\* re.findall(r'x\^\d+|x|1', poly_str): the matches from left to right, none
\* overlapping, the first alternative that matches at a position taken.
RECURSIVE FindTerms(_)
FindTerms(str) ==
    IF str = <<>> THEN <<>>
    ELSE IF /\ Len(str) >= 3 /\ str[1] = "x" /\ str[2] = "^"
            /\ DigitRun(SubSeq(str, 3, Len(str))) > 0
         THEN LET n == 2 + DigitRun(SubSeq(str, 3, Len(str)))
              IN  <<SubSeq(str, 1, n)>> \o FindTerms(SubSeq(str, n + 1, Len(str)))
    ELSE IF str[1] = "x" \/ str[1] = "1"
         THEN <<(<<str[1]>>)>> \o FindTerms(Tail(str))
    ELSE FindTerms(Tail(str))

\* The degree the loop body gives a term: 0 for "1", 1 for "x", int(term[2:]).
TermDegree(term) ==
    IF term = <<"1">> THEN 0
    ELSE IF term = <<"x">> THEN 1
    ELSE ParseDigits(SubSeq(term, 3, Len(term)), 10, 0)

\* value |= 1 << degree
BitOrShiftXors(val, degree) == Xor(val, ShiftLeft(1, degree))
BitOrShift(val, degree) ==
    IF (val \div (2 ^ degree)) % 2 = 1 THEN val ELSE val + ShiftLeft(1, degree)

RECURSIVE AlgTermsLoop(_, _)
AlgTermsLoop(terms, val) ==
    IF terms = <<>> THEN val
    ELSE AlgTermsLoop(Tail(terms), BitOrShift(val, TermDegree(Head(terms))))

\* str_poly_to_int for the four formats (-1: the call raised). The strings
\* parsed as int, hex or bin here are numerals without a sign, on which
\* abs(int(poly_str)) is int(poly_str).
str_poly_to_int(str, fmt) ==
    IF fmt = "int" THEN ParseInt(RemoveSpaces(str), 10, <<>>)
    ELSE IF fmt = "hex" THEN ParseInt(RemoveSpaces(str), 16, <<"0", "x">>)
    ELSE IF fmt = "bin" THEN ParseInt(RemoveSpaces(str), 2, <<"0", "b">>)
    ELSE AlgTermsLoop(FindTerms(RemoveSpaces(str)), 0)

\* " + ".join(poly_terms)
RECURSIVE JoinPlus(_)
JoinPlus(terms) ==
    IF terms = <<>> THEN <<>>
    ELSE IF Len(terms) = 1 THEN Head(terms)
    ELSE Head(terms) \o <<" ", "+", " ">> \o JoinPlus(Tail(terms))

\* int_poly_to_str, alg: the term appended for an order of poly_ones
AlgTermAlwaysPower(order) == <<"x", "^">> \o Numeral(order, 10)
AlgTerm(order) ==
    IF order = 0 THEN <<"1">>
    ELSE IF order = 1 THEN <<"x">>
    ELSE <<"x", "^">> \o Numeral(order, 10)

\* int_poly_to_str (poly_int = abs(int(poly_int)) is poly_int for n >= 0)
int_poly_to_str(n, fmt) ==
    IF fmt = "int" THEN Numeral(n, 10)
    ELSE IF fmt = "hex" THEN <<"0", "x">> \o Numeral(n, 16)
    ELSE IF fmt = "bin" THEN <<"0", "b">> \o Numeral(n, 2)
    ELSE IF n = 0 THEN <<"0">>
    ELSE LET poly_ones == Reverse(get_bit_positions(n))
         IN  JoinPlus([k \in 1..Len(poly_ones) |-> AlgTerm(poly_ones[k])])

Formats == {"int", "hex", "bin", "alg"}
AlgChars == {"x", "^", "0", "1", "2", "+", " "}

\* The strings over AlgChars of length at most n.
RECURSIVE StringsUpTo(_)
StringsUpTo(n) ==
    IF n = 0 THEN {<<>>}
    ELSE LET shorter == StringsUpTo(n - 1)
         IN  shorter \cup {Append(str, ch) : str \in shorter, ch \in AlgChars}

\* Every term of str has a degree the integers of the model can hold.
DegreesInRange(str) ==
    \A k \in 1..Len(FindTerms(RemoveSpaces(str))) :
        TermDegree(FindTerms(RemoveSpaces(str))[k]) <= MaxDegreeStr

\* Either a polynomial is serialized and the string parsed back in the same
\* format, or a string typed in algebraic notation is parsed.
InitStr ==
    /\ \/ /\ \E m \in 0..MaxStrPoly, sh \in {0, MaxStrShift} : poly_int = ShiftLeft(m, sh)
          /\ poly_format \in Formats
          /\ poly_str = <<>>
          /\ pc = "serialize"
       \/ /\ poly_int = 0
          /\ poly_format = "alg"
          /\ poly_str \in {str \in StringsUpTo(MaxStrLen) : DegreesInRange(str)}
          /\ pc = "parse"
    /\ value = 0
    /\ IdleParams /\ IdlePoly /\ IdleNets /\ IdleXor /\ IdlePrng /\ IdleGen
    /\ IdleHarness /\ IdleTb

IntPolyToStr ==
    /\ pc = "serialize"
    /\ poly_str' = int_poly_to_str(poly_int, poly_format)
    /\ pc' = "parse_back"
    /\ UNCHANGED <<paramVars, polyVars, netVars, xorVars, prngVars, genVars, harnessVars,
                   tbVars, poly_int, poly_format, value>>

StrPolyToInt ==
    /\ pc \in {"parse", "parse_back"}
    /\ value' = str_poly_to_int(poly_str, poly_format)
    /\ pc' = IF pc = "parse" THEN "parsed" ELSE "round_trip"
    /\ UNCHANGED <<paramVars, polyVars, netVars, xorVars, prngVars, genVars, harnessVars,
                   tbVars, poly_int, poly_format, poly_str>>

NextStr == IntPolyToStr \/ StrPolyToInt

SpecStr == InitStr /\ [][NextStr]_vars

\* The terms of a serialized polynomial: the pieces between " + ".
RECURSIVE SplitPlus(_, _)
SplitPlus(str, cur) ==
    IF str = <<>> THEN <<cur>>
    ELSE IF Len(str) >= 3 /\ SubSeq(str, 1, 3) = <<" ", "+", " ">>
         THEN <<cur>> \o SplitPlus(SubSeq(str, 4, Len(str)), <<>>)
    ELSE SplitPlus(Tail(str), Append(cur, Head(str)))

\* C23: for every n >= 0 and every format in {int, hex, bin, alg},
\* str_poly_to_int(int_poly_to_str(n, f), f) = n; the alg serializer lists
\* the set exponents of n in strictly descending order, exponent 0 as "1",
\* exponent 1 as "x", and renders n = 0 as "0".
C23_StringRoundTrip ==
    /\ pc = "round_trip" => value = poly_int
    /\ (pc \in {"parse_back", "round_trip"} /\ poly_format = "alg") =>
          IF poly_int = 0 THEN poly_str = <<"0">>
          ELSE LET terms == SplitPlus(poly_str, <<>>)
                   deg(k) == IF terms[k] = <<"1">> THEN 0
                             ELSE IF terms[k] = <<"x">> THEN 1
                             ELSE ParseDigits(SubSeq(terms[k], 3, Len(terms[k])), 10, 0)
               IN  /\ \A k \in 1..Len(terms) :
                          /\ terms[k] = <<"1">> \/ terms[k] = <<"x">>
                             \/ (Len(terms[k]) >= 3 /\ SubSeq(terms[k], 1, 2) = <<"x", "^">>)
                          /\ deg(k) >= 2 \/ Len(terms[k]) = 1
                   /\ \A k \in 1..(Len(terms) - 1) : deg(k) > deg(k + 1)
                   /\ {deg(k) : k \in 1..Len(terms)} = BitSet(poly_int)

C23_Witness ==
    /\ pc = "round_trip" /\ poly_format = "alg" /\ poly_int = ShiftLeft(19, MaxStrShift)
    /\ poly_str = <<"x", "^", "1", "5", " ", "+", " ", "x", "^", "1", "2", " ", "+", " ",
                    "x", "^", "1", "1">>
    /\ value = poly_int

\* A term of exponent k stands at position j of str (spaces removed): "x^"
\* followed by the numeral of k and no further digit; an "x" that no "^" and
\* digit follow, for k = 1; a "1" outside the exponent of a term, for k = 0.
DigitsAt(str, from, to) ==
    from <= to /\ \A m \in from..to : DigitValue(str[m], 10) >= 0
PowerTermAt(str, j, to) ==
    /\ j + 2 <= to /\ to <= Len(str)
    /\ str[j] = "x" /\ str[j + 1] = "^" /\ DigitsAt(str, j + 2, to)
    /\ to = Len(str) \/ DigitValue(str[to + 1], 10) < 0
TermOccurs(str, k) ==
    \E j \in 1..Len(str) :
        \/ \E to \in j..Len(str) :
              PowerTermAt(str, j, to) /\ ParseDigits(SubSeq(str, j + 2, to), 10, 0) = k
        \/ /\ k = 1 /\ str[j] = "x"
           /\ ~ \E to \in j..Len(str) : PowerTermAt(str, j, to)
        \/ /\ k = 0 /\ str[j] = "1"
           /\ ~ \E st \in 1..j : \E to \in j..Len(str) : PowerTermAt(str, st, to)

\* C30: str_poly_to_int in the alg format returns the integer whose bit k is
\* set exactly when a term of exponent k occurs in the string; a repeated
\* term sets its bit once, and a string without a term yields 0.
C30_AlgParseSetsBits ==
    (pc \in {"parsed", "round_trip"} /\ poly_format = "alg") =>
        /\ value >= 0 /\ value < 2 ^ (MaxDegreeStr + 1)
        /\ \A k \in 0..MaxDegreeStr :
              Bit(value, k) = 1 <=> TermOccurs(RemoveSpaces(poly_str), k)

C30_Witness ==
    /\ pc = "parsed" /\ poly_str = <<"x", "+", "x", "1">> /\ value = 3

\* ============================================================== SpecTb
\* Simulation of the testbench tb_gf2_<e>_prng that generate_tb writes around
\* gf2_<e>_prng, for a project built by main() or the GUI handler. Three
\* processes run: "always #5 clk = ~clk", the initial block, and the always
\* block of the module. Within one time step the active processes run in any
\* order; a non-blocking assignment takes effect when none is left to run;
\* then time moves to the next pending delay. A reg holds x (here -1) until
\* it is first assigned.
MaxTbH == 5
TbRepeatOneMore == HarnessIterations + 1
TbRepeat == 100
ClockHalfPeriod == 5
TbDelay == 10
X == -1

InitTb ==
    /\ h \in 2..MaxTbH
    /\ \E arg_a \in 1..MaxA, arg_c \in 0..MaxC :
          /\ a = poly_mod(arg_a, h)
          /\ c = poly_mod(arg_c, h)
    /\ a # 0
    /\ bit_length = PrngBitLength(h)
    /\ x0 \in 0..((2 ^ PrngBitLength(h)) - 1)
    /\ clk = X /\ rst = X /\ enable = X /\ seed = X /\ state = X /\ i = X
    /\ loaded = FALSE
    /\ now = 0 /\ clk_at = ClockHalfPeriod /\ wake = 0
    /\ dut_trig = FALSE /\ tb_trig = FALSE /\ nba = <<>>
    /\ rst_edges = 0 /\ en_visible = 0 /\ verdict = ""
    /\ pc = "tb_start"
    /\ IdlePoly /\ IdleNets /\ IdleXor /\ IdleGen /\ IdleHarness /\ IdleStr

tbIdle == <<paramVars, polyVars, netVars, xorVars, genVars, harnessVars, strVars, x0>>

\* No process is left to run at the current time.
ActiveDone == clk_at # now /\ wake # now /\ ~dut_trig /\ ~tb_trig

\* initial begin clk = 0; rst = 0; enable = 0; seed = <e>'d<code_input>; #10
TbStart ==
    /\ pc = "tb_start" /\ wake = now
    /\ clk' = 0 /\ rst' = 0 /\ enable' = 0 /\ seed' = x0
    /\ wake' = now + TbDelay
    /\ pc' = "tb_rst"
    /\ UNCHANGED <<tbIdle, state, i, loaded, now, clk_at, dut_trig, tb_trig, nba,
                   rst_edges, en_visible, verdict>>

\* always #5 clk = ~clk; a change from 0 to 1 wakes the processes waiting on
\* posedge clk.
ClockToggle ==
    /\ pc # "tb_stop" /\ clk_at = now
    /\ clk' = IF clk = 0 THEN 1 ELSE IF clk = 1 THEN 0 ELSE X
    /\ clk_at' = now + ClockHalfPeriod
    /\ IF clk = 0
       THEN dut_trig' = TRUE /\ tb_trig' = (pc = "tb_repeat")
       ELSE UNCHANGED <<dut_trig, tb_trig>>
    /\ UNCHANGED <<tbIdle, pc, rst, enable, seed, state, i, loaded, now, wake, nba,
                   rst_edges, en_visible, verdict>>

\* always @(posedge clk) of gf2_<e>_prng: the right-hand side is read now,
\* state changes later.
DutAlways ==
    /\ pc # "tb_stop" /\ dut_trig
    /\ dut_trig' = FALSE
    /\ nba' = IF rst = 1 \/ enable = 1
              THEN <<[val |-> PrngRegisterUpdate(rst, enable, seed, state,
                                                 PrngNextState(a, c, h, state)),
                      load |-> (rst = 1)]>>
              ELSE nba
    /\ rst_edges' = IF rst = 1 THEN rst_edges + 1 ELSE rst_edges
    /\ UNCHANGED <<tbIdle, pc, clk, rst, enable, seed, state, i, loaded, now, clk_at,
                   wake, tb_trig, en_visible, verdict>>

\* The pending non-blocking assignment to state takes effect.
NbaUpdate ==
    /\ pc # "tb_stop" /\ ActiveDone /\ nba # <<>>
    /\ state' = nba[1].val
    /\ nba' = <<>>
    /\ loaded' = (loaded \/ nba[1].load)
    /\ en_visible' = IF nba[1].load THEN 0 ELSE en_visible + 1
    /\ UNCHANGED <<tbIdle, pc, clk, rst, enable, seed, i, now, clk_at, wake, dut_trig,
                   tb_trig, rst_edges, verdict>>

\* rst = 1; #10
TbRaiseRst ==
    /\ pc = "tb_rst" /\ wake = now
    /\ rst' = 1
    /\ wake' = now + TbDelay
    /\ pc' = "tb_enable"
    /\ UNCHANGED <<tbIdle, clk, enable, seed, state, i, loaded, now, clk_at, dut_trig,
                   tb_trig, nba, rst_edges, en_visible, verdict>>

\* rst = 0; enable = 1; i = 0; repeat (100) begin @(posedge clk);
TbEnable ==
    /\ pc = "tb_enable" /\ wake = now
    /\ rst' = 0 /\ enable' = 1 /\ i' = 0
    /\ wake' = -1
    /\ pc' = "tb_repeat"
    /\ UNCHANGED <<tbIdle, clk, seed, state, loaded, now, clk_at, dut_trig, tb_trig,
                   nba, rst_edges, en_visible, verdict>>

\* i = i + 1; end of one pass of repeat; after the last pass: #10
TbPosedge ==
    /\ pc = "tb_repeat" /\ tb_trig
    /\ tb_trig' = FALSE
    /\ i' = i + 1
    /\ IF i + 1 = TbRepeat
       THEN pc' = "tb_delay" /\ wake' = now + TbDelay
       ELSE UNCHANGED <<pc, wake>>
    /\ UNCHANGED <<tbIdle, clk, rst, enable, seed, state, loaded, now, clk_at, dut_trig,
                   nba, rst_edges, en_visible, verdict>>

\* if (prng_out == <e>'d<expected_code_output>) $display(...); $stop;
TbCompare ==
    /\ pc = "tb_delay" /\ wake = now
    /\ verdict' = IF prng_out = IterAffineMod(a, c, h, x0, HarnessIterations)
                  THEN "Test Passed" ELSE "Test Failed"
    /\ wake' = -1
    /\ pc' = "tb_stop"
    /\ UNCHANGED <<tbIdle, clk, rst, enable, seed, state, i, loaded, now, clk_at,
                   dut_trig, tb_trig, nba, rst_edges, en_visible>>

\* Nothing is left to do at the current time: time moves to the next delay.
TimeAdvance ==
    /\ pc # "tb_stop" /\ ActiveDone /\ nba = <<>>
    /\ now' = IF wake > now /\ wake < clk_at THEN wake ELSE clk_at
    /\ UNCHANGED <<tbIdle, pc, clk, rst, enable, seed, state, i, loaded, clk_at, wake,
                   dut_trig, tb_trig, nba, rst_edges, en_visible, verdict>>

NextTb ==
    \/ TbStart \/ ClockToggle \/ DutAlways \/ NbaUpdate \/ TbRaiseRst
    \/ TbEnable \/ TbPosedge \/ TbCompare \/ TimeAdvance

SpecTb == InitTb /\ [][NextTb]_vars

\* C24: in the testbench run exactly one rising edge of clk occurs with
\* rst = 1, and when prng_out is compared exactly 100 rising edges with
\* rst = 0 and enable = 1 after it have their register update visible, so the
\* compared value is poly_affine_mod applied 100 times to the seed, the value
\* random_computation_example computes.
C24_HarnessCountsHundred ==
    /\ rst_edges <= 1
    /\ pc \in {"tb_repeat", "tb_delay", "tb_stop"} => (rst_edges = 1 /\ loaded)
    /\ pc = "tb_stop" =>
          /\ en_visible = 100
          /\ i = 100
          /\ prng_out = IterAffineMod(a, c, h, x0, 100)
          /\ verdict = "Test Passed"

C24_Witness ==
    /\ pc = "tb_stop" /\ now = 1025 /\ nba # <<>> /\ en_visible = 100
    /\ poly_degree(a) = 1 /\ c # 0 /\ poly_degree(h) = 2
    /\ prng_out # IterAffineMod(a, c, h, x0, 99)
    /\ nba[1].val # prng_out
    /\ verdict = "Test Passed"

\* C25: in the GUI handler, when the parsed h(x) is 0 the handler reports the
\* error and ends: poly_mod is never entered with h = 0 and the project
\* generation is never called.
C25_GuiZeroModulusEnds ==
    (entry = "gf2e_prng_tool_app" /\ h = 0) =>
        /\ pc \notin {"hang", "generate", "failed", "done"}
        /\ todo = <<>> /\ written = <<>>

\* The request the run is serving is valid: a > 0 (after the reduction main
\* makes), degree(h) >= 1, b >= 1, and a reducer input at least degree(h) wide.
ValidRequest ==
    /\ pc # "main"
    /\ \/ entry = "xor_tree" /\ num_vectors >= 1 /\ bit_length >= 1
       \/ entry = "gf2_poly_affine" /\ a > 0 /\ bit_length >= 1
       \/ entry = "gf2_poly_mod" /\ poly_degree(h) >= 1 /\ bit_length >= poly_degree(h)
       \/ /\ entry = "gf2_poly_affine_mod" /\ a > 0 /\ poly_degree(h) >= 1
          /\ bit_length >= 1 /\ bit_length + poly_degree(a) >= poly_degree(h)
       \/ entry \in PrngIntakes /\ a > 0 /\ poly_degree(h) >= 1

\* The source of module m is among the files the run has written.
Emitted(m) ==
    \E j \in 1..Len(written) :
        FileName(written[j]) = [dir |-> "src", kind |-> m.kind, sizes |-> m.sizes]

\* C26: for a valid request every module name instantiated in an emitted
\* source names a module the same run emits: the xor_tree_<N>_<W> written
\* into the AffineTransform and ModularReducer sources has the N and W the
\* sub-module step computes on its own, and the composer's gf2_poly_affine_<b>
\* and gf2_poly_mod_<b + degree(a)> are the modules its sub-module step asks for.
C26_InstancesAreEmitted ==
    ValidRequest =>
        /\ \A k \in 1..Len(written) :
              written[k].dir = "src" => \A m \in Instantiated(written[k]) : Emitted(m)
        /\ pc = "done" =>
              /\ entry \in {"gf2_poly_affine", "gf2_poly_affine_mod"} \cup PrngIntakes =>
                    /\ AffineNumVectors(a, c) = AffineSubmoduleNumVectors(a, c)
                    /\ \A b \in 1..MaxYBitLength :
                          AffineOutBitLength(a, b) = AffineSubmoduleBitLength(a, b)
              /\ entry = "gf2_poly_mod" =>
                    /\ ModNumVectors(h, bit_length) = ModSubmoduleNumVectors(h, bit_length)
                    /\ ModOutBitLength(h) = ModSubmoduleBitLength(h)
              /\ entry = "gf2_poly_affine_mod" =>
                    ComposerModInBitLength(a, bit_length)
                        = ComposerSubmoduleModInBitLength(a, bit_length)

C26_Witness ==
    /\ entry = "gf2_poly_affine_mod" /\ pc = "done" /\ ValidRequest
    /\ a = 3 /\ c = 2 /\ h = 7 /\ bit_length = 2
    /\ Len(written) = 10
    /\ Emitted(Module("xor_tree", <<3, 3>>)) /\ Emitted(Module("xor_tree", <<2, 2>>))
    /\ Emitted(Module("gf2_poly_affine", <<2>>)) /\ Emitted(Module("gf2_poly_mod", <<3>>))
    /\ Instantiated(written[9]) = {Module("gf2_poly_affine", <<2>>), Module("gf2_poly_mod", <<3>>)}

\* A part-select [hi:lo] as written into a source, and the bit indices it
\* names on a net declared [hi:lo] in the same direction.
Slice(hi, lo) == [hi |-> hi, lo |-> lo]
SliceBits(sl) == IF sl.hi >= sl.lo THEN sl.lo..sl.hi ELSE sl.hi..sl.lo

\* gf2_poly_affine_generator.generate_src: the part-selects of w_in_vectors
\* that are assigned, in order: one per entry of a_ones, then the one for c.
AffineBusSlices(aa, cc, b) ==
    LET W == AffineOutBitLength(aa, b)
        N == AffineNumVectors(aa, cc)
        shifts == [k \in 1..Len(AffineOnes(aa)) |-> Slice(k * W - 1, (k - 1) * W)]
    IN  IF cc # 0 THEN Append(shifts, Slice(N * W - 1, (N - 1) * W)) ELSE shifts

\* gf2_poly_mod_generator.generate_src: one part-select per reduction
\* constant, then the one for the low bits of in_poly.
ModBusSlices(hh, y_bit_length) ==
    LET W == ModOutBitLength(hh)
        N == ModNumVectors(hh, y_bit_length)
        gated == [k \in 1..Len(get_reduction_constants(hh, y_bit_length)) |->
                     Slice(k * W - 1, (k - 1) * W)]
    IN  Append(gated, Slice(N * W - 1, (N - 1) * W))

\* xor_tree_generator.generate_src: in_vectors[end_idx:begin_idx] read by vec_0_i
XorUnpackSlices(N, W) == [k \in 1..N |-> Slice(k * W - 1, (k - 1) * W)]

\* The assigned part-selects of bus w_in_vectors of a written source, and the
\* N and W of the xor tree it instantiates.
BusSlicesOf(f) ==
    IF f.kind = "gf2_poly_affine" THEN AffineBusSlices(f.args[1], f.args[2], f.args[3])
    ELSE ModBusSlices(f.args[1], f.args[2])
TreeSizesOf(f) == (CHOOSE m \in Instantiated(f) : TRUE).sizes

\* C27: in every emitted AffineTransform and ModularReducer module the
\* assignments to w_in_vectors drive N pairwise disjoint W-bit slices that
\* cover all N*W bits of the bus exactly once (slice i being the one the xor
\* tree unpacks as vector i), N and W being the sizes of the instantiated tree.
C27_BusDrivenExactlyOnce ==
    \A k \in 1..Len(written) :
        (written[k].dir = "src" /\ written[k].kind \in {"gf2_poly_affine", "gf2_poly_mod"}) =>
            LET slices == BusSlicesOf(written[k])
                N == TreeSizesOf(written[k])[1]
                W == TreeSizesOf(written[k])[2]
            IN  /\ Len(slices) = N
                /\ slices = XorUnpackSlices(N, W)
                /\ \A j \in 1..N : Cardinality(SliceBits(slices[j])) = W
                /\ \A j, m \in 1..N : j # m => SliceBits(slices[j]) \cap SliceBits(slices[m]) = {}
                /\ UNION {SliceBits(slices[j]) : j \in 1..N} = 0..(N * W - 1)

\* The assignments of the emitted tree that read wire vec_<s>_<idx>, each
\* counted once per operand.
ReadersOf(s, idx) ==
    {rd \in (1..Len(assigns)) \X {1, 2} :
        /\ rd[2] <= Len(assigns[rd[1]].reads)
        /\ assigns[rd[1]].reads[rd[2]] = <<s, idx>>}

\* C28: in the emitted XOR tree for N >= 1 every wire of stage s, the N
\* unpacked input vectors at stage 0 included, is read by exactly one
\* assignment, which belongs to stage s + 1; the output reads the single wire
\* of the last stage; and the tree has exactly N - 1 two-input XORs.
C28_TreeFanOutOne ==
    pc = "done" =>
        LET last == stage - 1
            final == assigns[Len(assigns)]
        IN  /\ \A k \in 1..Len(assigns) :
                  assigns[k].net = "vec" =>
                      /\ Cardinality(ReadersOf(assigns[k].stage, assigns[k].idx)) = 1
                      /\ \A rd \in ReadersOf(assigns[k].stage, assigns[k].idx) :
                            IF assigns[k].stage = last
                            THEN assigns[rd[1]].net = "out_xor"
                            ELSE /\ assigns[rd[1]].net = "vec"
                                 /\ assigns[rd[1]].stage = assigns[k].stage + 1
            /\ final.net = "out_xor" /\ final.reads = <<(<<last, 0>>)>>
            /\ WiresOfStage(last) = {k \in 1..Len(assigns) :
                                        assigns[k].net = "vec" /\ assigns[k].stage = last
                                        /\ assigns[k].idx = 0}
            /\ Cardinality(WiresOfStage(last)) = 1
            /\ Cardinality({k \in 1..Len(assigns) : Len(assigns[k].reads) = 2})
                  = num_vectors - 1

C28_Witness ==
    /\ pc = "done" /\ num_vectors = 4 /\ stage - 1 = 2
    /\ Cardinality({k \in 1..Len(assigns) : Len(assigns[k].reads) = 2}) = 3
    /\ ReadersOf(0, 3) = {<<6, 2>>}
    /\ ReadersOf(2, 0) = {<<8, 1>>}

\* C29: within one generation of a PRNG project (a > 0 after reduction,
\* degree(h) >= 1), whenever a file name is written more than once the text
\* written is the same each time: it is generated from the same arguments.
C29_SameNameSameContent ==
    (entry \in PrngIntakes /\ pc # "main" /\ a > 0 /\ poly_degree(h) >= 1) =>
        \A j, k \in 1..Len(written) :
            FileName(written[j]) = FileName(written[k]) =>
                written[j].args = written[k].args

C29_Witness ==
    /\ entry = "gf2e_prng_tool" /\ pc = "done" /\ a = 1 /\ c = 0 /\ poly_degree(h) = 2
    /\ FileName(written[1]) = FileName(written[5])
    /\ written[1].kind = "xor_tree" /\ written[1].args = <<1, 2>>
    /\ written[5].args = <<1, 2>>
    /\ written[3].kind = "gf2_poly_affine" /\ written[7].kind = "gf2_poly_mod"

====
